---------------------------- MODULE Spec2Model ----------------------------
(***************************************************************************)
(* Consensus parameters (src/consensus/params.rs).                         *)
(*                                                                         *)
(* Params::new maps a Network to a literal Params record, and              *)
(* Params::difficulty_adjustment_interval divides pow_target_timespan by   *)
(* pow_target_spacing.  The model runs a number of concurrent callers.     *)
(* Under Spec each caller calls Params::new and                            *)
(* difficulty_adjustment_interval on the record it holds.  Under           *)
(* SpecLiteral each caller builds a Params value from a struct literal     *)
(* (every field of the struct is pub) and calls                            *)
(* difficulty_adjustment_interval on it.                                   *)
(*                                                                         *)
(* A u64 word is written as four 16-bit limbs, most significant first, so  *)
(* that 0x00000000ffffffffu64 is U64(0, 0, 65535, 65535).  A Uint256 is    *)
(* the array of four words in source order: array index 0 of the source    *)
(* is index 1 of the sequence.                                             *)
(***************************************************************************)
EXTENDS Integers, Sequences, FiniteSets, TLC

(* ------------------------------ bounds --------------------------------- *)

\* Number of concurrent callers.
NumCallers == 2

\* Struct literals carry pow_target_spacing in 0..MaxSpacing.
MaxSpacing == 2

\* Struct literals carry pow_target_timespan in 0..MaxTimespan.
MaxTimespan == 3

(* ------------------------------ state ---------------------------------- *)

VARIABLES
    params,     \* params[c]: the Params value caller c holds, or NoParams
    origin,     \* origin[c]: how caller c obtained it
    result,     \* result[c]: outcome of c's last difficulty_adjustment_interval
    panicked,   \* panicked[c]: caller c's thread has panicked
    returned    \* returned[n]: every record Params::new(n) has returned so far

vars == <<params, origin, result, panicked, returned>>

Callers == 1..NumCallers

NoParams == [absent |-> TRUE]

NoResult == <<>>

(* ------------------------------ networks ------------------------------- *)

Network == {"Bitcoin", "Testnet", "Regtest", "Dogecoin", "Dogetest"}

(* ------------------------------ Uint256 -------------------------------- *)

U64(l3, l2, l1, l0) == <<l3, l2, l1, l0>>

Uint256(w0, w1, w2, w3) == <<w0, w1, w2, w3>>

MAX_BITS_BITCOIN ==
    Uint256(U64(\Hffff, \Hffff, \Hffff, \Hffff),
            U64(\Hffff, \Hffff, \Hffff, \Hffff),
            U64(\Hffff, \Hffff, \Hffff, \Hffff),
            U64(\H0000, \H0000, \Hffff, \Hffff))

MAX_BITS_TESTNET ==
    Uint256(U64(\Hffff, \Hffff, \Hffff, \Hffff),
            U64(\Hffff, \Hffff, \Hffff, \Hffff),
            U64(\Hffff, \Hffff, \Hffff, \Hffff),
            U64(\H0000, \H0000, \Hffff, \Hffff))

MAX_BITS_REGTEST ==
    Uint256(U64(\Hffff, \Hffff, \Hffff, \Hffff),
            U64(\Hffff, \Hffff, \Hffff, \Hffff),
            U64(\Hffff, \Hffff, \Hffff, \Hffff),
            U64(\H7fff, \Hffff, \Hffff, \Hffff))

\* MAX_BITS_DOGECOIN with its words written most significant first.
MAX_BITS_DOGECOIN_msw_first ==
    Uint256(U64(\H0000, \H0fff, \Hffff, \Hffff),
            U64(\Hffff, \Hffff, \Hffff, \Hffff),
            U64(\Hffff, \Hffff, \Hffff, \Hffff),
            U64(\Hffff, \Hffff, \Hffff, \Hffff))

MAX_BITS_DOGECOIN ==
    Uint256(U64(\Hffff, \Hffff, \Hffff, \Hffff),
            U64(\Hffff, \Hffff, \Hffff, \Hffff),
            U64(\Hffff, \Hffff, \Hffff, \Hffff),
            U64(\H0000, \H0fff, \Hffff, \Hffff))

MAX_BITS_DOGETEST ==
    Uint256(U64(\Hffff, \Hffff, \Hffff, \Hffff),
            U64(\Hffff, \Hffff, \Hffff, \Hffff),
            U64(\Hffff, \Hffff, \Hffff, \Hffff),
            U64(\H0000, \H0fff, \Hffff, \Hffff))

(* ------------------------------ Params --------------------------------- *)

ParamsFields ==
    {"network", "bip16_time", "bip34_height", "bip65_height", "bip66_height",
     "rule_change_activation_threshold", "miner_confirmation_window",
     "pow_limit", "pow_target_spacing", "pow_target_timespan",
     "allow_min_difficulty_blocks", "no_pow_retargeting"}

ParamsBitcoin ==
    [network |-> "Bitcoin",
     bip16_time |-> 1333238400,
     bip34_height |-> 227931,
     bip65_height |-> 388381,
     bip66_height |-> 363725,
     rule_change_activation_threshold |-> 1916,
     miner_confirmation_window |-> 2016,
     pow_limit |-> MAX_BITS_BITCOIN,
     pow_target_spacing |-> 10 * 60,
     pow_target_timespan |-> 14 * 24 * 60 * 60,
     allow_min_difficulty_blocks |-> FALSE,
     no_pow_retargeting |-> FALSE]

ParamsTestnet ==
    [network |-> "Testnet",
     bip16_time |-> 1333238400,
     bip34_height |-> 21111,
     bip65_height |-> 581885,
     bip66_height |-> 330776,
     rule_change_activation_threshold |-> 1512,
     miner_confirmation_window |-> 2016,
     pow_limit |-> MAX_BITS_TESTNET,
     pow_target_spacing |-> 10 * 60,
     pow_target_timespan |-> 14 * 24 * 60 * 60,
     allow_min_difficulty_blocks |-> TRUE,
     no_pow_retargeting |-> FALSE]

\* The regtest arm with threshold and window exchanged.
ParamsRegtest_swapped ==
    [ParamsTestnet EXCEPT
       !.network = "Regtest",
       !.bip34_height = 100000000,
       !.bip65_height = 1351,
       !.bip66_height = 1251,
       !.rule_change_activation_threshold = 144,
       !.miner_confirmation_window = 108,
       !.pow_limit = MAX_BITS_REGTEST,
       !.no_pow_retargeting = TRUE]

ParamsRegtest ==
    [network |-> "Regtest",
     bip16_time |-> 1333238400,
     bip34_height |-> 100000000,
     bip65_height |-> 1351,
     bip66_height |-> 1251,
     rule_change_activation_threshold |-> 108,
     miner_confirmation_window |-> 144,
     pow_limit |-> MAX_BITS_REGTEST,
     pow_target_spacing |-> 10 * 60,
     pow_target_timespan |-> 14 * 24 * 60 * 60,
     allow_min_difficulty_blocks |-> TRUE,
     no_pow_retargeting |-> TRUE]

\* The dogecoin arm with the proof-of-work timing left as in the bitcoin arm.
ParamsDogecoin_bitcoin_timing ==
    [ParamsBitcoin EXCEPT
       !.network = "Dogecoin",
       !.bip34_height = 1034383,
       !.bip65_height = 3464751,
       !.bip66_height = 1034383,
       !.rule_change_activation_threshold = 9576,
       !.miner_confirmation_window = 10080,
       !.pow_limit = MAX_BITS_DOGECOIN]

ParamsDogecoin ==
    [network |-> "Dogecoin",
     bip16_time |-> 1333238400,
     bip34_height |-> 1034383,
     bip65_height |-> 3464751,
     bip66_height |-> 1034383,
     rule_change_activation_threshold |-> 9576,
     miner_confirmation_window |-> 10080,
     pow_limit |-> MAX_BITS_DOGECOIN,
     pow_target_spacing |-> 60,
     pow_target_timespan |-> 4 * 60 * 60,
     allow_min_difficulty_blocks |-> FALSE,
     no_pow_retargeting |-> FALSE]

\* The dogetest arm copied from the dogecoin arm, only the network renamed.
ParamsDogetest_copied ==
    [ParamsDogecoin EXCEPT !.network = "Dogetest"]

ParamsDogetest ==
    [network |-> "Dogetest",
     bip16_time |-> 1333238400,
     bip34_height |-> 708658,
     bip65_height |-> 1854705,
     bip66_height |-> 708658,
     rule_change_activation_threshold |-> 2880,
     miner_confirmation_window |-> 10080,
     pow_limit |-> MAX_BITS_DOGETEST,
     pow_target_spacing |-> 60,
     pow_target_timespan |-> 4 * 60 * 60,
     allow_min_difficulty_blocks |-> TRUE,
     no_pow_retargeting |-> FALSE]

\* Params::new without its last arm.
New_missing_arm(network) ==
    CASE network = "Bitcoin" -> ParamsBitcoin
      [] network = "Testnet" -> ParamsTestnet
      [] network = "Regtest" -> ParamsRegtest
      [] network = "Dogecoin" -> ParamsDogecoin
      [] OTHER -> NoParams

\* Params::new keeping a call count per network and leaking it into the record.
New_hidden_state(network) ==
    LET p == CASE network = "Bitcoin" -> ParamsBitcoin
               [] network = "Testnet" -> ParamsTestnet
               [] network = "Regtest" -> ParamsRegtest
               [] network = "Dogecoin" -> ParamsDogecoin
               [] network = "Dogetest" -> ParamsDogetest
    IN  IF returned[network] = {} THEN p ELSE [p EXCEPT !.bip16_time = @ + 1]

\* Params::new with the testnet and regtest arms exchanged.
New_cross_wired(network) ==
    CASE network = "Bitcoin" -> ParamsBitcoin
      [] network = "Testnet" -> ParamsRegtest
      [] network = "Regtest" -> ParamsTestnet
      [] network = "Dogecoin" -> ParamsDogecoin
      [] network = "Dogetest" -> ParamsDogetest

New(network) ==
    CASE network = "Bitcoin" -> ParamsBitcoin
      [] network = "Testnet" -> ParamsTestnet
      [] network = "Regtest" -> ParamsRegtest
      [] network = "Dogecoin" -> ParamsDogecoin
      [] network = "Dogetest" -> ParamsDogetest

\* Outcome of a u64 division by zero: the thread panics, no value is returned.
DivideByZero == <<"attempt to divide by zero">>

\* Outcome of a call that returns the u64 v.
Returns(v) == <<"returns", v>>

\* The division with its operands exchanged.
difficulty_adjustment_interval_swapped(self) ==
    IF self.pow_target_timespan = 0
    THEN DivideByZero
    ELSE Returns(self.pow_target_spacing \div self.pow_target_timespan)

\* The division recovering silently: checked_div(..).unwrap_or(0).
difficulty_adjustment_interval_silent(self) ==
    IF self.pow_target_spacing = 0
    THEN Returns(0)
    ELSE Returns(self.pow_target_timespan \div self.pow_target_spacing)

difficulty_adjustment_interval(self) ==
    IF self.pow_target_spacing = 0
    THEN DivideByZero
    ELSE Returns(self.pow_target_timespan \div self.pow_target_spacing)

(* ------------------------------ callers -------------------------------- *)

Init ==
    /\ params = [c \in Callers |-> NoParams]
    /\ origin = [c \in Callers |-> "none"]
    /\ result = [c \in Callers |-> NoResult]
    /\ panicked = [c \in Callers |-> FALSE]
    /\ returned = [n \in Network |-> {}]

\* let p = Params::new(network);
CallNew(c, network) ==
    /\ ~panicked[c]
    /\ LET p == New(network) IN
         /\ params' = [params EXCEPT ![c] = p]
         /\ returned' = [returned EXCEPT ![network] = @ \cup {p}]
    /\ origin' = [origin EXCEPT ![c] = "new"]
    /\ result' = [result EXCEPT ![c] = NoResult]
    /\ UNCHANGED panicked

\* let p = Params { network, pow_target_spacing, pow_target_timespan, .. };
\* the fields the model does not vary are those of the regtest literal.
StructLiteral(network, spacing, timespan) ==
    [network |-> network,
     bip16_time |-> 1333238400,
     bip34_height |-> 100000000,
     bip65_height |-> 1351,
     bip66_height |-> 1251,
     rule_change_activation_threshold |-> 108,
     miner_confirmation_window |-> 144,
     pow_limit |-> MAX_BITS_REGTEST,
     pow_target_spacing |-> spacing,
     pow_target_timespan |-> timespan,
     allow_min_difficulty_blocks |-> TRUE,
     no_pow_retargeting |-> TRUE]

Construct(c, spacing, timespan) ==
    /\ ~panicked[c]
    /\ params' = [params EXCEPT ![c] = StructLiteral("Regtest", spacing, timespan)]
    /\ origin' = [origin EXCEPT ![c] = "literal"]
    /\ result' = [result EXCEPT ![c] = NoResult]
    /\ UNCHANGED <<panicked, returned>>

\* let r = p.difficulty_adjustment_interval();
CallInterval(c) ==
    /\ ~panicked[c]
    /\ params[c] # NoParams
    /\ LET r == difficulty_adjustment_interval(params[c]) IN
         /\ result' = [result EXCEPT ![c] = r]
         /\ panicked' = [panicked EXCEPT ![c] = (r = DivideByZero)]
    /\ UNCHANGED <<params, origin, returned>>

\* Callers that obtain their records from Params::new.
Next ==
    \/ \E c \in Callers, network \in Network : CallNew(c, network)
    \/ \E c \in Callers : CallInterval(c)

Spec == Init /\ [][Next]_vars

\* Callers that build their records from struct literals.
NextLiteral ==
    \/ \E c \in Callers, spacing \in 0..MaxSpacing, timespan \in 0..MaxTimespan :
          Construct(c, spacing, timespan)
    \/ \E c \in Callers : CallInterval(c)

SpecLiteral == Init /\ [][NextLiteral]_vars

ResultOK(r) ==
    \/ r \in {NoResult, DivideByZero}
    \/ Len(r) = 2 /\ r[1] = "returns" /\ r[2] \in Nat

TypeOK ==
    /\ \A c \in Callers : DOMAIN params[c] \in {ParamsFields, DOMAIN NoParams}
    /\ \A c \in Callers : origin[c] \in {"none", "new", "literal"}
    /\ \A c \in Callers : ResultOK(result[c])
    /\ panicked \in [Callers -> BOOLEAN]

(* ------------------------------ helpers -------------------------------- *)

\* The 16-bit limbs of a Uint256, most significant first: word index 3 of
\* the source (index 4 here) is the most significant word.
C7_Limbs(u) == u[4] \o u[3] \o u[2] \o u[1]

\* a < b as 256-bit unsigned integers.
C7_Less(a, b) ==
    LET x == C7_Limbs(a)
        y == C7_Limbs(b)
    IN  \E i \in 1..Len(x) :
           /\ x[i] < y[i]
           /\ \A j \in 1..(i - 1) : x[j] = y[j]

\* Every network has been passed to Params::new at least once.
AllNetworksReturned == \A n \in Network : returned[n] # {}

\* Caller c holds a record from Params::new(n) and has computed its interval.
HasInterval(c, n) ==
    /\ origin[c] = "new"
    /\ params[c].network = n
    /\ result[c] # NoResult

\* v is the quotient of t by s, truncated.
IsFloorDiv(v, t, s) == v \in Nat /\ v * s <= t /\ t < (v + 1) * s

Ceiling(a, b) == (a + b - 1) \div b

(* ------------------------------ claims --------------------------------- *)

C1_Expected ==
    [Bitcoin  |-> <<"Bitcoin", 1333238400, 227931, 388381, 363725, 1916, 2016,
                    600, 1209600, FALSE, FALSE>>,
     Testnet  |-> <<"Testnet", 1333238400, 21111, 581885, 330776, 1512, 2016,
                    600, 1209600, TRUE, FALSE>>,
     Regtest  |-> <<"Regtest", 1333238400, 100000000, 1351, 1251, 108, 144,
                    600, 1209600, TRUE, TRUE>>,
     Dogecoin |-> <<"Dogecoin", 1333238400, 1034383, 3464751, 1034383, 9576,
                    10080, 60, 14400, FALSE, FALSE>>,
     Dogetest |-> <<"Dogetest", 1333238400, 708658, 1854705, 708658, 2880,
                    10080, 60, 14400, TRUE, FALSE>>]

C1_Fields(p) ==
    <<p.network, p.bip16_time, p.bip34_height, p.bip65_height, p.bip66_height,
      p.rule_change_activation_threshold, p.miner_confirmation_window,
      p.pow_target_spacing, p.pow_target_timespan,
      p.allow_min_difficulty_blocks, p.no_pow_retargeting>>

\* C1: every record Params::new(n) has returned carries exactly the tabulated
\* values for n, and its network field is n.
C1_ExactRecords ==
    \A n \in Network : \A p \in returned[n] :
       /\ C1_Fields(p) = C1_Expected[n]
       /\ p.network = n

C1_Witness ==
    /\ AllNetworksReturned
    /\ \E c \in Callers : origin[c] = "new" /\ params[c].network = "Dogetest"

\* C2: the interval computed on a record of Params::new is the truncated
\* quotient of pow_target_timespan by pow_target_spacing: 2016 for Bitcoin,
\* Testnet and Regtest, 240 for Dogecoin and Dogetest.
C2_IntervalValues ==
    \A c \in Callers : \A n \in Network :
       HasInterval(c, n) =>
          /\ Len(result[c]) = 2
          /\ IsFloorDiv(result[c][2], params[c].pow_target_timespan,
                        params[c].pow_target_spacing)
          /\ result[c] = Returns(IF n \in {"Bitcoin", "Testnet", "Regtest"}
                                 THEN 2016 ELSE 240)

C2_Witness ==
    \E c, d \in Callers : HasInterval(c, "Regtest") /\ HasInterval(d, "Dogetest")

\* C3: every record of Params::new has threshold <= window and positive
\* spacing and timespan, and no interval computed on one divides by zero.
C3_RecordInvariants ==
    /\ \A n \in Network : \A p \in returned[n] :
          /\ p.rule_change_activation_threshold <= p.miner_confirmation_window
          /\ p.pow_target_spacing > 0
          /\ p.pow_target_timespan > 0
    /\ \A c \in Callers :
          origin[c] = "new" => ~panicked[c] /\ result[c] # DivideByZero

C3_Witness ==
    /\ AllNetworksReturned
    /\ \E c \in Callers : HasInterval(c, "Regtest")

\* C4: an interval computed on a record whose pow_target_spacing is 0 ends in
\* the division-by-zero panic and yields no number; on any other record it
\* returns the truncated quotient and does not panic.
C4_OnlyDivideByZeroFails ==
    \A c \in Callers :
       result[c] # NoResult =>
          IF params[c].pow_target_spacing = 0
          THEN result[c] = DivideByZero /\ panicked[c]
          ELSE /\ ~panicked[c]
               /\ Len(result[c]) = 2
               /\ result[c][1] = "returns"
               /\ IsFloorDiv(result[c][2], params[c].pow_target_timespan,
                             params[c].pow_target_spacing)

C4_Witness ==
    \E c, d \in Callers :
       /\ origin[c] = "literal" /\ origin[d] = "literal"
       /\ params[c].pow_target_spacing = 0 /\ result[c] = DivideByZero
       /\ panicked[c] /\ ~panicked[d]
       /\ params[d].pow_target_spacing = 2 /\ params[d].pow_target_timespan = 3
       /\ result[d] = Returns(1)

\* C5: every call of Params::new on one of the five networks returns a
\* complete record; no call panics or falls through the match.
C5_NewIsTotal ==
    /\ \A n \in Network : \A p \in returned[n] : DOMAIN p = ParamsFields
    /\ \A c \in Callers :
          origin[c] = "new" => DOMAIN params[c] = ParamsFields /\ ~panicked[c]

C5_Witness ==
    /\ AllNetworksReturned
    /\ \A c \in Callers : origin[c] = "new"

C7_Rank(n) ==
    CASE n \in {"Bitcoin", "Testnet"} -> 1
      [] n \in {"Dogecoin", "Dogetest"} -> 2
      [] n = "Regtest" -> 3

\* C7: as 256-bit integers, the pow_limit of Bitcoin and Testnet are equal,
\* those of Dogecoin and Dogetest are equal, and
\* Bitcoin = Testnet < Dogecoin = Dogetest < Regtest.
C7_PowLimitOrder ==
    \A m, n \in Network : \A p \in returned[m] : \A q \in returned[n] :
       /\ C7_Rank(m) = C7_Rank(n) =>
             /\ p.pow_limit = q.pow_limit
             /\ ~C7_Less(p.pow_limit, q.pow_limit)
       /\ C7_Rank(m) < C7_Rank(n) =>
             /\ p.pow_limit # q.pow_limit
             /\ C7_Less(p.pow_limit, q.pow_limit)
             /\ ~C7_Less(q.pow_limit, p.pow_limit)

C7_Witness ==
    /\ AllNetworksReturned
    /\ \E c, d \in Callers :
          /\ origin[c] = "new" /\ params[c].network = "Dogecoin"
          /\ origin[d] = "new" /\ params[d].network = "Regtest"

\* C8: no_pow_retargeting is true for Regtest only; allow_min_difficulty_blocks
\* is true for exactly Testnet, Regtest and Dogetest; only Regtest has both, and
\* no_pow_retargeting implies allow_min_difficulty_blocks.
C8_FlagsNotCrossWired ==
    \A n \in Network : \A p \in returned[n] :
       /\ p.no_pow_retargeting = (n = "Regtest")
       /\ p.allow_min_difficulty_blocks = (n \in {"Testnet", "Regtest", "Dogetest"})
       /\ (p.no_pow_retargeting /\ p.allow_min_difficulty_blocks) => n = "Regtest"
       /\ p.no_pow_retargeting => p.allow_min_difficulty_blocks

C8_Witness ==
    /\ AllNetworksReturned
    /\ \E c, d \in Callers :
          /\ origin[c] = "new" /\ params[c].network = "Regtest"
          /\ origin[d] = "new" /\ params[d].network = "Testnet"

\* Percentage the source comments state for a network's threshold.
C9_Percent(n) == IF n \in {"Bitcoin", "Dogecoin"} THEN 95 ELSE 75

\* C9: for every network the threshold is the stated percentage of the
\* window, rounded up: 95% for Bitcoin and Dogecoin, 75% for Testnet,
\* Regtest and Dogetest.
C9_ThresholdIsStatedPercentage ==
    \A n \in Network : \A p \in returned[n] :
       p.rule_change_activation_threshold =
          Ceiling(C9_Percent(n) * p.miner_confirmation_window, 100)

=============================================================================
